---- MODULE Spec2Model ----
(***************************************************************************)
(* The real-time fan-out layer of server/routes.ts: the registry           *)
(* `clients` (a Map keyed by WebSocket), the 'connection', 'message' and   *)
(* 'close' handlers, and the three fan-out loops of the 'message' handler. *)
(* Node's event loop runs one handler at a time, so every handler is one   *)
(* atomic action.                                                          *)
(***************************************************************************)
EXTENDS Integers, Sequences, FiniteSets, TLC

\* Bounds of the model.
MaxConn == 2        \* sockets 1..MaxConn are accepted (one more under the wide specifications)
MaxChannel == 1     \* channel ids on the wire are 0..MaxChannel
MaxUser == 2        \* user ids on the wire are 0..MaxUser
MaxSent == 4        \* frames the clients write in all, where they are counted
MaxReq == 2         \* POST /api/messages requests in flight

\* JavaScript `undefined`: the value of a field the parsed event does not have.
Undef == 0 - 1

Conns == 1..MaxConn
WideConns == 1..(MaxConn + 1)
ChannelIds == 0..MaxChannel
UserIds == 0..MaxUser

VARIABLES
    readyState,  \* readyState[ws]: the transport state of handle ws
    clients,     \* the Map `clients`, in insertion order: <<[ws, userId, channels]>>
    turn,        \* what the handler running in the current event-loop turn did
    hist,        \* per handle: the events it has sent so far, as the claims count them
    wire,        \* the frames clients have written and the server has not yet read
    http         \* per request: the state of its POST /api/messages handler

vars == <<readyState, clients, turn, hist, wire, http>>

\* The sockets of this run.
Handles == DOMAIN readyState

----------------------------------------------------------------------------
\* JavaScript values

\* The test `if (v)` on a number or undefined.
Truthy(v) == v # Undef /\ v # 0

\* message.data: either not an object (reading a property of it throws) or an
\* object with an authorId property (possibly undefined).
NoData == [present |-> FALSE, authorId |-> Undef]
Data(a) == [present |-> TRUE, authorId |-> a]

\* A parsed event; a field the client left out is Undef.
Event(t, u, ch, r, d, ty) ==
    [type |-> t, userId |-> u, channelId |-> ch, recipientId |-> r,
     data |-> d, isTyping |-> ty]

NoEvent == Event("none", Undef, Undef, Undef, NoData, FALSE)
Malformed == Event("malformed", Undef, Undef, Undef, NoData, FALSE)

AuthEvent(u) == Event("auth", u, Undef, Undef, NoData, FALSE)
JoinEvent(ch) == Event("join_channel", Undef, ch, Undef, NoData, FALSE)
LeaveEvent(ch) == Event("leave_channel", Undef, ch, Undef, NoData, FALSE)
NewMessageEvent(ch, r, d) == Event("new_message", Undef, ch, r, d, FALSE)
TypingEvent(ch, u, ty) == Event("typing", u, ch, Undef, NoData, ty)
UnknownEvent == Event("ping", Undef, Undef, Undef, NoData, FALSE)

----------------------------------------------------------------------------
\* The Map `clients`

MapHas(map, ws) == \E i \in DOMAIN map : map[i].ws = ws

MapIndex(map, ws) == CHOOSE i \in DOMAIN map : map[i].ws = ws

MapGet(map, ws) == map[MapIndex(map, ws)]

\* Map.prototype.set: a new key goes last, an existing key keeps its place.
MapSet(map, ws, u, chs) ==
    LET e == [ws |-> ws, userId |-> u, channels |-> chs] IN
    IF MapHas(map, ws)
    THEN [map EXCEPT ![MapIndex(map, ws)] = e]
    ELSE Append(map, e)

\* Map.prototype.delete: no effect when the key is absent.
MapDelete(map, ws) == SelectSeq(map, LAMBDA e : e.ws # ws)

\* The handles that have an entry.
Registered == {clients[i].ws : i \in DOMAIN clients}

----------------------------------------------------------------------------
\* The fan-out loops of the 'message' handler

\* The outbound frames: JSON.stringify of these objects.
NewMessagePayload(m) == [type |-> "new_message", message |-> m.data]

TypingPayload(m) ==
    [type |-> "typing", userId |-> m.userId, channelId |-> m.channelId,
     isTyping |-> m.isTyping]

\* clientWs.send(...) for a handle in `bad` throws; for any other it queues the frame.
Send(e, bad) == IF e.ws \in bad THEN "throw" ELSE "send"

\* ChannelVisit without the test of clientWs.readyState.
ChannelVisitAnyState(e, ws, m, bad) ==
    IF e.ws # ws /\ m.channelId \in e.channels
    THEN Send(e, bad)
    ELSE "skip"

\* ChannelVisit without the test clientWs !== ws.
ChannelVisitEcho(e, ws, m, bad) ==
    IF m.channelId \in e.channels /\ readyState[e.ws] = "OPEN"
    THEN Send(e, bad)
    ELSE "skip"

\* The visitor of the channel loop on entry e: "send", "skip" or "throw".
ChannelVisit(e, ws, m, bad) ==
    IF e.ws # ws /\ m.channelId \in e.channels /\ readyState[e.ws] = "OPEN"
    THEN Send(e, bad)
    ELSE "skip"

\* The visitor of the direct-message loop. `||` and `&&` evaluate left to right:
\* message.data.authorId is read only when userId differs from recipientId, and
\* reading it throws a TypeError when message.data is not an object.
RecipientVisit(e, ws, m, bad) ==
    IF e.userId # m.recipientId /\ ~m.data.present
    THEN "throw"
    ELSE IF (e.userId = m.recipientId \/ e.userId = m.data.authorId)
            /\ readyState[e.ws] = "OPEN" /\ e.ws # ws
         THEN Send(e, bad)
         ELSE "skip"

\* TypingVisit without the test clientInfo.channels.has(message.channelId).
TypingVisitAll(e, ws, m, bad) ==
    IF e.ws # ws /\ readyState[e.ws] = "OPEN"
    THEN Send(e, bad)
    ELSE "skip"

\* The visitor of the typing loop.
TypingVisit(e, ws, m, bad) ==
    IF e.ws # ws /\ m.channelId \in e.channels /\ readyState[e.ws] = "OPEN"
    THEN Send(e, bad)
    ELSE "skip"

Visit(loop, e, ws, m, bad) ==
    CASE loop = "channel" -> ChannelVisit(e, ws, m, bad)
      [] loop = "recipient" -> RecipientVisit(e, ws, m, bad)
      [] loop = "typing" -> TypingVisit(e, ws, m, bad)

Payload(loop, m) ==
    IF loop = "typing" THEN TypingPayload(m) ELSE NewMessagePayload(m)

NoFanOut == [sent |-> <<>>, threw |-> FALSE]

\* The handles a fan-out hands a frame for.
SentTo(out) == {out.sent[i].to : i \in DOMAIN out.sent}

\* clients.forEach(visitor) from entry i on, in insertion order. An exception
\* thrown by the visitor leaves forEach: the entries after it are not visited.
RECURSIVE ForEach(_, _, _, _, _)
ForEach(loop, i, ws, m, bad) ==
    IF i > Len(clients)
    THEN NoFanOut
    ELSE LET v == Visit(loop, clients[i], ws, m, bad) IN
         IF v = "throw"
         THEN [sent |-> <<>>, threw |-> TRUE]
         ELSE LET rest == ForEach(loop, i + 1, ws, m, bad) IN
              [sent |-> (IF v = "send"
                         THEN <<[to |-> clients[i].ws, payload |-> Payload(loop, m)]>>
                         ELSE <<>>) \o rest.sent,
               threw |-> rest.threw]

\* NewMessageFanOut with two passes over the registry for a direct message: one
\* for the connections of the recipient, one for those of the author.
NewMessageFanOutTwoPass(ws, m, bad) ==
    IF Truthy(m.channelId)
    THEN ForEach("channel", 1, ws, m, bad)
    ELSE IF Truthy(m.recipientId)
         THEN LET toRecipient ==
                      ForEach("recipient", 1, ws,
                              [m EXCEPT !.data.authorId = m.recipientId], bad)
                  toAuthor ==
                      ForEach("recipient", 1, ws,
                              [m EXCEPT !.recipientId = m.data.authorId], bad)
              IN  [sent |-> toRecipient.sent \o toAuthor.sent,
                   threw |-> toRecipient.threw \/ toAuthor.threw]
         ELSE NoFanOut

\* case 'new_message'
NewMessageFanOut(ws, m, bad) ==
    IF Truthy(m.channelId)
    THEN ForEach("channel", 1, ws, m, bad)
    ELSE IF Truthy(m.recipientId)
         THEN ForEach("recipient", 1, ws, m, bad)
         ELSE NoFanOut

\* case 'typing'
TypingFanOut(ws, m, bad) == ForEach("typing", 1, ws, m, bad)

----------------------------------------------------------------------------
\* The registry effects of the 'message' and 'close' handlers

\* AuthRegistry over a registry that holds one connection per user: the entries
\* other connections hold for the userId are dropped.
AuthRegistryUnique(map, ws, m) ==
    MapSet(SelectSeq(map, LAMBDA e : e.ws = ws \/ e.userId # m.userId),
           ws, m.userId, {})

\* AuthRegistry that sets the userId of an existing entry only.
AuthRegistryExisting(map, ws, m) ==
    IF MapHas(map, ws)
    THEN [map EXCEPT ![MapIndex(map, ws)].userId = m.userId]
    ELSE map

\* case 'auth'
AuthRegistry(map, ws, m) == MapSet(map, ws, m.userId, {})

\* JoinRegistry that admits a handle with no entry instead of skipping it.
JoinRegistryCreate(map, ws, m) ==
    IF MapHas(map, ws)
    THEN [map EXCEPT ![MapIndex(map, ws)].channels = @ \cup {m.channelId}]
    ELSE Append(map, [ws |-> ws, userId |-> Undef, channels |-> {m.channelId}])

\* case 'join_channel'
JoinRegistry(map, ws, m) ==
    IF MapHas(map, ws)
    THEN [map EXCEPT ![MapIndex(map, ws)].channels = @ \cup {m.channelId}]
    ELSE map

\* LeaveRegistry that empties the channel set of ws.
LeaveRegistryAll(map, ws, m) ==
    IF MapHas(map, ws)
    THEN [map EXCEPT ![MapIndex(map, ws)].channels = {}]
    ELSE map

\* case 'leave_channel'
LeaveRegistry(map, ws, m) ==
    IF MapHas(map, ws)
    THEN [map EXCEPT ![MapIndex(map, ws)].channels = @ \ {m.channelId}]
    ELSE map

\* CloseRegistry over a registry indexed by user: it drops every entry of the
\* user of ws.
CloseRegistryUser(map, ws) ==
    IF MapHas(map, ws)
    THEN SelectSeq(map, LAMBDA e : e.userId # MapGet(map, ws).userId)
    ELSE map

\* CloseRegistry without the clients.delete(ws).
CloseRegistryKeep(map, ws) == map

\* ws.on('close')
CloseRegistry(map, ws) == MapDelete(map, ws)

----------------------------------------------------------------------------
\* The event-loop turn and the history of events

\* op: the handler that ran; ws: the handle it ran for; msg: the parsed event;
\* sent: the frames handed to send(), in order; threw: the catch block ran;
\* bad: the handles whose transport write fails in this turn.
Idle ==
    [op |-> "idle", ws |-> 0, msg |-> NoEvent, sent |-> <<>>, threw |-> FALSE,
     bad |-> {}]

Turn(op, ws, m, out, bad) ==
    [op |-> op, ws |-> ws, msg |-> m, sent |-> out.sent, threw |-> out.threw,
     bad |-> bad]

\* What handle ws has sent so far: whether an auth event, and the channels it
\* sent join_channel for after an auth event with no leave_channel since.
\* hist records it for the handles of its domain (none under Spec, all under
\* SpecHist).
NoHist == [authed |-> FALSE, joined |-> {}]

HistAfter(h, m) ==
    CASE m.type = "auth" -> [h EXCEPT !.authed = TRUE]
      [] m.type = "join_channel" ->
            IF h.authed THEN [h EXCEPT !.joined = @ \cup {m.channelId}] ELSE h
      [] m.type = "leave_channel" -> [h EXCEPT !.joined = @ \ {m.channelId}]
      [] OTHER -> h

Record(ws, m) ==
    IF ws \in DOMAIN hist THEN [hist EXCEPT ![ws] = HistAfter(@, m)] ELSE hist

----------------------------------------------------------------------------
\* The frames in flight from the clients to the server
\*
\* wire.inbox[ws]: the frames the client of ws has written and the 'message'
\* handler has not been called for, oldest first, each with the number it was
\* written as; wire.count[ws]: how many frames that client has written;
\* wire.expect[ws]: the entry of ws after every frame written so far, applied in
\* the order written; wire.last[r][s]: the number of the latest frame of s that
\* was handed to r. The frames are tracked for the handles of the domain of
\* wire.inbox (none where the order of the frames is not at issue: an event
\* is then handled as it arrives).
NoWire == [inbox |-> <<>>, count |-> <<>>, expect |-> <<>>, last |-> <<>>]

Tracked(ws) == ws \in DOMAIN wire.inbox

\* NextFrame for a transport that emits the newest frame first.
NextFrameNewest(box) == Len(box)

\* The transport emits 'message' for the frames of one socket in the order they
\* arrived: the next one is the oldest.
NextFrame(box) == 1

\* The 'message' event about to be emitted for ws carries m.
Arrived(ws, m) ==
    Tracked(ws) =>
        /\ wire.inbox[ws] # <<>>
        /\ wire.inbox[ws][NextFrame(wire.inbox[ws])].msg = m

Without(box, i) == SubSeq(box, 1, i - 1) \o SubSeq(box, i + 1, Len(box))

\* The handler of the next frame of ws has run and handed out the frames of out.
AfterReceive(ws, out) ==
    IF ~Tracked(ws)
    THEN wire
    ELSE LET box == wire.inbox[ws]
             i == NextFrame(box)
         IN  [wire EXCEPT
                !.inbox[ws] = Without(box, i),
                !.last = [r \in DOMAIN @ |->
                            IF r \in SentTo(out)
                            THEN [@[r] EXCEPT ![ws] = box[i].seq]
                            ELSE @[r]]]

\* The registry after the switch has handled event m of ws.
RegistryAfter(map, ws, m) ==
    CASE m.type = "auth" -> AuthRegistry(map, ws, m)
      [] m.type = "join_channel" -> JoinRegistry(map, ws, m)
      [] m.type = "leave_channel" -> LeaveRegistry(map, ws, m)
      [] OTHER -> map

----------------------------------------------------------------------------
\* The handlers

\* Receiving for a transport that still emits 'message' after 'close'.
ReceivingLate(ws) == turn = Idle /\ readyState[ws] # "NONE"

\* A 'message' event is dispatched to a handle whose socket still reads.
Receiving(ws) == turn = Idle /\ readyState[ws] \in {"OPEN", "CLOSING"}

Init ==
    /\ readyState = [ws \in Conns |-> "NONE"]
    /\ clients = <<>>
    /\ turn = Idle
    /\ hist = <<>>
    /\ wire = NoWire
    /\ http = <<>>

\* wss.on('connection'): the handlers are attached, the registry is not touched.
\* Handles are opaque, so the next accepted socket is named by the next number.
Connection(ws) ==
    /\ turn = Idle
    /\ readyState[ws] = "NONE"
    /\ \A w \in Handles : w < ws => readyState[w] # "NONE"
    /\ readyState' = [readyState EXCEPT ![ws] = "OPEN"]
    /\ turn' = Turn("connection", ws, NoEvent, NoFanOut, {})
    /\ UNCHANGED <<clients, hist, wire, http>>

\* The closing handshake starts (either side): readyState leaves OPEN before
\* the 'close' event is emitted. No handler of the program runs.
BeginClose(ws) ==
    /\ turn = Idle
    /\ readyState[ws] = "OPEN"
    /\ readyState' = [readyState EXCEPT ![ws] = "CLOSING"]
    /\ UNCHANGED <<clients, turn, hist, wire, http>>

\* ws.on('close')
OnClose(ws) ==
    /\ turn = Idle
    /\ readyState[ws] \in {"OPEN", "CLOSING"}
    /\ readyState' = [readyState EXCEPT ![ws] = "CLOSED"]
    /\ clients' = CloseRegistry(clients, ws)
    /\ turn' = Turn("close", ws, NoEvent, NoFanOut, {})
    /\ UNCHANGED <<hist, wire, http>>

\* OnMalformed with a catch block that drops the connection.
OnMalformedClose(ws) ==
    /\ Receiving(ws)
    /\ readyState' = [readyState EXCEPT ![ws] = "CLOSED"]
    /\ clients' = MapDelete(clients, ws)
    /\ turn' = Turn("message", ws, Malformed, [sent |-> <<>>, threw |-> TRUE], {})
    /\ UNCHANGED <<hist, wire, http>>

\* ws.on('message') with a frame JSON.parse rejects: the catch logs it.
OnMalformed(ws) ==
    /\ Receiving(ws)
    /\ Arrived(ws, Malformed)
    /\ turn' = Turn("message", ws, Malformed, [sent |-> <<>>, threw |-> TRUE], {})
    /\ wire' = AfterReceive(ws, [sent |-> <<>>, threw |-> TRUE])
    /\ UNCHANGED <<readyState, clients, hist, http>>

\* ws.on('message'), case 'auth'
OnAuth(ws, m) ==
    /\ Receiving(ws)
    /\ Arrived(ws, m)
    /\ clients' = AuthRegistry(clients, ws, m)
    /\ turn' = Turn("message", ws, m, NoFanOut, {})
    /\ hist' = Record(ws, m)
    /\ wire' = AfterReceive(ws, NoFanOut)
    /\ UNCHANGED <<readyState, http>>

\* OnJoinChannel that also announces the join to the members of the channel.
OnJoinChannelAnnounce(ws, m) ==
    /\ Receiving(ws)
    /\ clients' = JoinRegistry(clients, ws, m)
    /\ turn' = Turn("message", ws, m, ForEach("typing", 1, ws, m, {}), {})
    /\ hist' = Record(ws, m)
    /\ UNCHANGED <<readyState, wire, http>>

\* ws.on('message'), case 'join_channel'
OnJoinChannel(ws, m) ==
    /\ Receiving(ws)
    /\ Arrived(ws, m)
    /\ clients' = JoinRegistry(clients, ws, m)
    /\ turn' = Turn("message", ws, m, NoFanOut, {})
    /\ hist' = Record(ws, m)
    /\ wire' = AfterReceive(ws, NoFanOut)
    /\ UNCHANGED <<readyState, http>>

\* ws.on('message'), case 'leave_channel'
OnLeaveChannel(ws, m) ==
    /\ Receiving(ws)
    /\ Arrived(ws, m)
    /\ clients' = LeaveRegistry(clients, ws, m)
    /\ turn' = Turn("message", ws, m, NoFanOut, {})
    /\ hist' = Record(ws, m)
    /\ wire' = AfterReceive(ws, NoFanOut)
    /\ UNCHANGED <<readyState, http>>

\* ws.on('message'), case 'new_message'
OnNewMessage(ws, m, bad) ==
    /\ Receiving(ws)
    /\ Arrived(ws, m)
    /\ turn' = Turn("message", ws, m, NewMessageFanOut(ws, m, bad), bad)
    /\ wire' = AfterReceive(ws, NewMessageFanOut(ws, m, bad))
    /\ UNCHANGED <<readyState, clients, hist, http>>

\* OnTyping that drops the entry of a connection the write to which failed.
OnTypingPrune(ws, m, bad) ==
    /\ Receiving(ws)
    /\ turn' = Turn("message", ws, m, TypingFanOut(ws, m, bad), bad)
    /\ clients' = IF turn'.threw
                  THEN SelectSeq(clients, LAMBDA e : e.ws \notin bad)
                  ELSE clients
    /\ UNCHANGED <<readyState, hist, wire, http>>

\* ws.on('message'), case 'typing'
OnTyping(ws, m, bad) ==
    /\ Receiving(ws)
    /\ Arrived(ws, m)
    /\ turn' = Turn("message", ws, m, TypingFanOut(ws, m, bad), bad)
    /\ wire' = AfterReceive(ws, TypingFanOut(ws, m, bad))
    /\ UNCHANGED <<readyState, clients, hist, http>>

\* OnUnknown with a default case that ends the connection.
OnUnknownReject(ws, m) ==
    /\ Receiving(ws)
    /\ readyState' = [readyState EXCEPT ![ws] = "CLOSED"]
    /\ clients' = MapDelete(clients, ws)
    /\ turn' = Turn("message", ws, m, NoFanOut, {})
    /\ UNCHANGED <<hist, wire, http>>

\* ws.on('message') with a type the switch has no case for
OnUnknown(ws, m) ==
    /\ Receiving(ws)
    /\ Arrived(ws, m)
    /\ turn' = Turn("message", ws, m, NoFanOut, {})
    /\ wire' = AfterReceive(ws, NoFanOut)
    /\ UNCHANGED <<readyState, clients, hist, http>>

\* The handler returns and the event loop is idle again.
Return ==
    /\ turn # Idle
    /\ turn' = Idle
    /\ UNCHANGED <<readyState, clients, hist, wire, http>>

\* The number of frames the clients of the handles of S have written.
RECURSIVE Written(_)
Written(S) ==
    IF S = {}
    THEN 0
    ELSE LET ws == CHOOSE w \in S : TRUE
         IN  wire.count[ws] + Written(S \ {ws})

\* The client of ws writes one more frame while its socket is open; the frame
\* waits in the socket until the event loop emits 'message' for it.
ClientSend(ws, m) ==
    /\ turn = Idle
    /\ Tracked(ws)
    /\ readyState[ws] = "OPEN"
    /\ Written(DOMAIN wire.count) < MaxSent
    /\ wire' = [wire EXCEPT
                  !.count[ws] = @ + 1,
                  !.inbox[ws] = Append(@, [seq |-> wire.count[ws] + 1, msg |-> m]),
                  !.expect[ws] = RegistryAfter(@, ws, m)]
    /\ UNCHANGED <<readyState, clients, turn, hist, http>>

\* The handlers every specification shares: the lifecycle of a handle and the
\* events that carry no id.
Lifecycle ==
    \/ \E ws \in Handles : Connection(ws)
    \/ \E ws \in Handles : BeginClose(ws)
    \/ \E ws \in Handles : OnClose(ws)
    \/ \E ws \in Handles : OnMalformed(ws)
    \/ \E ws \in Handles : OnUnknown(ws, UnknownEvent)
    \/ Return

\* Channel traffic: one user id in auth, every channel id, new_message with and
\* without a recipientId beside its channelId, two typing payloads; every
\* transport write succeeds.
Next ==
    \/ Lifecycle
    \/ \E ws \in Handles : OnAuth(ws, AuthEvent(1))
    \/ \E ws \in Handles, ch \in ChannelIds : OnJoinChannel(ws, JoinEvent(ch))
    \/ \E ws \in Handles, ch \in ChannelIds : OnLeaveChannel(ws, LeaveEvent(ch))
    \/ \E ws \in Handles, ch \in ChannelIds, r \in {Undef, 1} :
          OnNewMessage(ws, NewMessageEvent(ch, r, Data(1)), {})
    \/ \E ws \in Handles, ch \in ChannelIds, p \in {<<1, TRUE>>, <<MaxUser, FALSE>>} :
          OnTyping(ws, TypingEvent(ch, p[1], p[2]), {})

Spec == Init /\ [][Next]_vars

\* The same traffic, one typing payload, with the history of every handle recorded.
NextHist ==
    \/ Lifecycle
    \/ \E ws \in Handles : OnAuth(ws, AuthEvent(1))
    \/ \E ws \in Handles, ch \in ChannelIds : OnJoinChannel(ws, JoinEvent(ch))
    \/ \E ws \in Handles, ch \in ChannelIds : OnLeaveChannel(ws, LeaveEvent(ch))
    \/ \E ws \in Handles, ch \in ChannelIds, r \in {Undef, 1} :
          OnNewMessage(ws, NewMessageEvent(ch, r, Data(1)), {})
    \/ \E ws \in Handles, ch \in ChannelIds :
          OnTyping(ws, TypingEvent(ch, 1, TRUE), {})

InitHist ==
    /\ readyState = [ws \in Conns |-> "NONE"]
    /\ clients = <<>>
    /\ turn = Idle
    /\ hist = [ws \in Conns |-> NoHist]
    /\ wire = NoWire
    /\ http = <<>>

SpecHist == InitHist /\ [][NextHist]_vars

\* Direct messages: every user id, one channel, new_message without a channelId.
NextDM ==
    \/ Lifecycle
    \/ \E ws \in Handles, u \in UserIds : OnAuth(ws, AuthEvent(u))
    \/ \E ws \in Handles : OnJoinChannel(ws, JoinEvent(MaxChannel))
    \/ \E ws \in Handles : OnLeaveChannel(ws, LeaveEvent(MaxChannel))
    \/ \E ws \in Handles, r \in UserIds, a \in UserIds :
          OnNewMessage(ws, NewMessageEvent(Undef, r, Data(a)), {})
    \/ \E ws \in Handles : OnTyping(ws, TypingEvent(MaxChannel, 1, TRUE), {})

\* The wide specifications accept one socket more.
InitWide ==
    /\ readyState = [ws \in WideConns |-> "NONE"]
    /\ clients = <<>>
    /\ turn = Idle
    /\ hist = <<>>
    /\ wire = NoWire
    /\ http = <<>>

SpecDM == InitWide /\ [][NextDM]_vars

\* Failing transport writes: during one fan-out the write to at most one handle
\* throws.
BadSets == {{}} \cup {{c} : c \in Handles}

NextFail ==
    \/ Lifecycle
    \/ \E ws \in Handles : OnAuth(ws, AuthEvent(1))
    \/ \E ws \in Handles : OnJoinChannel(ws, JoinEvent(MaxChannel))
    \/ \E ws \in Handles : OnLeaveChannel(ws, LeaveEvent(MaxChannel))
    \/ \E ws \in Handles, ch \in {Undef, MaxChannel}, bad \in BadSets :
          OnNewMessage(ws, NewMessageEvent(ch, 1, Data(1)), bad)
    \/ \E ws \in Handles, bad \in BadSets :
          OnTyping(ws, TypingEvent(MaxChannel, 1, TRUE), bad)

SpecFail == InitWide /\ [][NextFail]_vars

\* Missing fields: new_message without a channelId, with and without a data
\* object, between connections of two users.
NextNoData ==
    \/ Lifecycle
    \/ \E ws \in Handles, u \in {1, MaxUser} : OnAuth(ws, AuthEvent(u))
    \/ \E ws \in Handles : OnJoinChannel(ws, JoinEvent(MaxChannel))
    \/ \E ws \in Handles : OnLeaveChannel(ws, LeaveEvent(MaxChannel))
    \/ \E ws \in Handles, d \in {NoData, Data(1)} :
          OnNewMessage(ws, NewMessageEvent(Undef, 1, d), {})
    \/ \E ws \in Handles : OnTyping(ws, TypingEvent(MaxChannel, 1, TRUE), {})

SpecNoData == InitWide /\ [][NextNoData]_vars

\* Missing ids: auth with and without a userId, join_channel, leave_channel and
\* typing with and without a channelId.
NextNoId ==
    \/ Lifecycle
    \/ \E ws \in Handles, u \in {Undef, 1} : OnAuth(ws, AuthEvent(u))
    \/ \E ws \in Handles, ch \in {Undef, MaxChannel} : OnJoinChannel(ws, JoinEvent(ch))
    \/ \E ws \in Handles, ch \in {Undef, MaxChannel} : OnLeaveChannel(ws, LeaveEvent(ch))
    \/ \E ws \in Handles :
          OnNewMessage(ws, NewMessageEvent(MaxChannel, Undef, Data(1)), {})
    \/ \E ws \in Handles, ch \in {Undef, MaxChannel} :
          OnTyping(ws, TypingEvent(ch, 1, TRUE), {})

SpecNoId == Init /\ [][NextNoId]_vars

----------------------------------------------------------------------------
\* Frames in flight: the clients write up to MaxSent frames ahead of the
\* server, which reads them one 'message' event at a time.
OrderEvents ==
    {AuthEvent(1), JoinEvent(MaxChannel), LeaveEvent(MaxChannel),
     TypingEvent(MaxChannel, 1, TRUE)}

InitOrder ==
    /\ readyState = [ws \in Conns |-> "NONE"]
    /\ clients = <<>>
    /\ turn = Idle
    /\ hist = <<>>
    /\ wire = [inbox |-> [ws \in Conns |-> <<>>],
               count |-> [ws \in Conns |-> 0],
               expect |-> [ws \in Conns |-> <<>>],
               last |-> [r \in Conns |-> [s \in Conns |-> 0]]]
    /\ http = <<>>

NextOrder ==
    \/ \E ws \in Handles : Connection(ws)
    \/ \E ws \in Handles : OnClose(ws)
    \/ Return
    \/ \E ws \in Handles, m \in OrderEvents : ClientSend(ws, m)
    \/ \E ws \in Handles : OnAuth(ws, AuthEvent(1))
    \/ \E ws \in Handles : OnJoinChannel(ws, JoinEvent(MaxChannel))
    \/ \E ws \in Handles : OnLeaveChannel(ws, LeaveEvent(MaxChannel))
    \/ \E ws \in Handles : OnTyping(ws, TypingEvent(MaxChannel, 1, TRUE), {})

SpecOrder == InitOrder /\ [][NextOrder]_vars

----------------------------------------------------------------------------
\* POST /api/messages
\*
\* http[r] is the state of the handler of request r: where it is (phase), the
\* parsed content, the response sent (status 0 and no body while there is none),
\* the row storage.createMessage returned, and the two background promises
\* handed to Promise.allSettled.
Contents == {"", "hi"}

NoRequest ==
    [phase |-> "none", content |-> "", status |-> 0, body |-> <<>>,
     stored |-> <<>>, tone |-> "none", embed |-> "none"]

\* The row storage.createMessage resolves to for request r.
Message(r) == [id |-> r, content |-> http[r].content]

\* res.status(400).json({ message: "Invalid message data" })
InvalidMessageData == [message |-> "Invalid message data"]

\* app.post("/api/messages") up to its first await: the session test, the
\* schema parse and the call of storage.createMessage.
PostMessages(r, authenticated, valid, content) ==
    /\ http[r].phase = "none"
    /\ http' = [http EXCEPT ![r] =
                  IF ~authenticated
                  THEN [@ EXCEPT !.phase = "done", !.status = 401]
                  ELSE IF ~valid
                  THEN [@ EXCEPT !.phase = "done", !.status = 400,
                                 !.body = <<InvalidMessageData>>]
                  ELSE [@ EXCEPT !.phase = "creating", !.content = content]]
    /\ UNCHANGED <<readyState, clients, turn, hist, wire>>

\* storage.createMessage resolves: the handler starts the background tasks when
\* the content is truthy, does not await them, and answers 201 with the row.
CreateMessageResolves(r) ==
    /\ http[r].phase = "creating"
    /\ http' = [http EXCEPT ![r] =
                  [@ EXCEPT !.phase = "done",
                            !.stored = <<Message(r)>>,
                            !.tone = IF http[r].content # "" THEN "pending" ELSE "none",
                            !.embed = IF http[r].content # "" THEN "embedding" ELSE "none",
                            !.status = 201,
                            !.body = <<Message(r)>>]]
    /\ UNCHANGED <<readyState, clients, turn, hist, wire>>

\* storage.createMessage rejects: the catch answers 400.
CreateMessageRejects(r) ==
    /\ http[r].phase = "creating"
    /\ http' = [http EXCEPT ![r] =
                  [@ EXCEPT !.phase = "done", !.status = 400,
                            !.body = <<InvalidMessageData>>]]
    /\ UNCHANGED <<readyState, clients, turn, hist, wire>>

\* ToneSettles for a handler that awaits the tone analysis inside its try block.
ToneSettlesAwaited(r, ok) ==
    /\ http[r].tone = "pending"
    /\ http' = [http EXCEPT ![r] =
                  IF ok
                  THEN [@ EXCEPT !.tone = "fulfilled"]
                  ELSE [@ EXCEPT !.tone = "rejected", !.status = 400,
                                 !.body = <<InvalidMessageData>>]]
    /\ UNCHANGED <<readyState, clients, turn, hist, wire>>

\* analyzeTone(contentStr).then(...) settles: fulfilled, the analysis is logged;
\* rejected, Promise.allSettled absorbs the rejection.
ToneSettles(r, ok) ==
    /\ http[r].tone = "pending"
    /\ http' = [http EXCEPT ![r].tone = IF ok THEN "fulfilled" ELSE "rejected"]
    /\ UNCHANGED <<readyState, clients, turn, hist, wire>>

\* processMessageEmbedding: await generateEmbedding(content) settles with a
\* vector, with null (the function returns) or by throwing (caught and logged).
EmbeddingSettles(r, outcome) ==
    /\ http[r].embed = "embedding"
    /\ http' = [http EXCEPT ![r].embed =
                  CASE outcome = "vector" -> "inserting"
                    [] outcome = "null" -> "skipped"
                    [] OTHER -> "failed"]
    /\ UNCHANGED <<readyState, clients, turn, hist, wire>>

\* processMessageEmbedding: await insertVector(...) settles; a rejection is
\* caught and logged.
InsertVectorSettles(r, ok) ==
    /\ http[r].embed = "inserting"
    /\ http' = [http EXCEPT ![r].embed = IF ok THEN "done" ELSE "failed"]
    /\ UNCHANGED <<readyState, clients, turn, hist, wire>>

InitPost ==
    /\ readyState = [ws \in Conns |-> "NONE"]
    /\ clients = <<>>
    /\ turn = Idle
    /\ hist = <<>>
    /\ wire = NoWire
    /\ http = [r \in 1..MaxReq |-> NoRequest]

NextPost ==
    \/ \E r \in DOMAIN http, authenticated \in BOOLEAN, valid \in BOOLEAN,
          content \in Contents : PostMessages(r, authenticated, valid, content)
    \/ \E r \in DOMAIN http : CreateMessageResolves(r)
    \/ \E r \in DOMAIN http : CreateMessageRejects(r)
    \/ \E r \in DOMAIN http, ok \in BOOLEAN : ToneSettles(r, ok)
    \/ \E r \in DOMAIN http, outcome \in {"vector", "null", "throw"} :
          EmbeddingSettles(r, outcome)
    \/ \E r \in DOMAIN http, ok \in BOOLEAN : InsertVectorSettles(r, ok)

SpecPost == InitPost /\ [][NextPost]_vars

----------------------------------------------------------------------------
\* What the claims speak of

\* The handles the current turn handed a frame for.
Recipients == {turn.sent[i].to : i \in DOMAIN turn.sent}

\* The live connections that have joined channel x.
Joined(x) ==
    {c \in Registered : x \in MapGet(clients, c).channels /\ readyState[c] = "OPEN"}

\* The live connections of user u.
ConnectionsOf(u) ==
    {c \in Registered : MapGet(clients, c).userId = u /\ readyState[c] = "OPEN"}

IsEvent(t) == turn.op = "message" /\ turn.msg.type = t

\* C1: a new_message that carries channelId X is handed to exactly the live
\* connections, other than the sender, that have joined X.
C1_ChannelRecipients ==
    (IsEvent("new_message") /\ turn.msg.channelId # Undef)
        => Recipients = Joined(turn.msg.channelId) \ {turn.ws}

\* The same for every channelId the test `if (message.channelId)` takes for
\* present (every id but 0).
ChannelRecipientsNonZero ==
    (IsEvent("new_message") /\ Truthy(turn.msg.channelId))
        => Recipients = Joined(turn.msg.channelId) \ {turn.ws}

\* C3: whatever the event, the connection that sent it is handed no frame.
C3_NoSelfEcho == turn.op = "message" => turn.ws \notin Recipients

\* A channel message whose sender has itself joined the channel reaches another
\* member.
C3_Witness ==
    /\ IsEvent("new_message")
    /\ Truthy(turn.msg.channelId)
    /\ turn.ws \in Joined(turn.msg.channelId)
    /\ turn.sent # <<>>

\* C4: a typing event with channelId X is handed to exactly the live connections,
\* other than the sender, that have joined X, and every frame carries the
\* event's userId, channelId and isTyping.
C4_TypingForwarded ==
    IsEvent("typing") =>
        /\ Recipients = Joined(turn.msg.channelId) \ {turn.ws}
        /\ \A i \in DOMAIN turn.sent :
              turn.sent[i].payload =
                  [type |-> "typing", userId |-> turn.msg.userId,
                   channelId |-> turn.msg.channelId,
                   isTyping |-> turn.msg.isTyping]

\* A typing event of a member of channel 0 reaches another member, which has
\* joined a second channel too.
C4_Witness ==
    /\ IsEvent("typing")
    /\ turn.msg.channelId = 0
    /\ turn.ws \in Joined(0)
    /\ turn.sent # <<>>
    /\ \E c \in Recipients : MapGet(clients, c).channels # {0}

\* C2: a new_message with recipientId R, no channelId and data.authorId A is
\* handed to exactly the live connections of user R and of user A, other than
\* the sender.
C2_DirectRecipients ==
    (/\ IsEvent("new_message")
     /\ turn.msg.channelId = Undef
     /\ turn.msg.recipientId # Undef
     /\ turn.msg.data.present)
        => Recipients = (ConnectionsOf(turn.msg.recipientId)
                         \cup ConnectionsOf(turn.msg.data.authorId)) \ {turn.ws}

\* The same for every recipientId the test `else if (message.recipientId)`
\* takes for present (every id but 0).
DirectRecipientsNonZero ==
    (/\ IsEvent("new_message")
     /\ turn.msg.channelId = Undef
     /\ Truthy(turn.msg.recipientId)
     /\ turn.msg.data.present)
        => Recipients = (ConnectionsOf(turn.msg.recipientId)
                         \cup ConnectionsOf(turn.msg.data.authorId)) \ {turn.ws}

\* C5: a connection is handed a new_message or typing event that carries
\* channelId X only if it has sent auth and, after it, join_channel(X) with no
\* leave_channel(X) since.
C5_TargetsAuthedAndJoined ==
    (turn.op = "message" /\ turn.msg.type \in {"new_message", "typing"}
     /\ turn.msg.channelId # Undef)
        => \A c \in Recipients :
              hist[c].authed /\ turn.msg.channelId \in hist[c].joined

\* The same for the events the code routes by channel: typing, and new_message
\* with a non-zero channelId.
ChannelTargetsAuthedAndJoined ==
    (turn.op = "message"
     /\ \/ turn.msg.type = "typing"
        \/ turn.msg.type = "new_message" /\ Truthy(turn.msg.channelId))
        => \A c \in Recipients :
              hist[c].authed /\ turn.msg.channelId \in hist[c].joined

\* C6: once a connection has an entry, no later event on it changes the userId
\* of that entry while the connection stays registered.
C6_UserIdSetOnce ==
    [][\A c \in Handles :
          (MapHas(clients, c) /\ MapHas(clients', c))
              => MapGet(clients', c).userId = MapGet(clients, c).userId]_vars

Targets(m) ==
    CASE m.type = "typing" -> Joined(m.channelId)
      [] m.type = "new_message" ->
            IF Truthy(m.channelId) THEN Joined(m.channelId)
            ELSE IF Truthy(m.recipientId)
                 THEN ConnectionsOf(m.recipientId) \cup ConnectionsOf(m.data.authorId)
                 ELSE {}
      [] OTHER -> {}

C9_FailureIsolated ==
    (turn.op = "message" /\ turn.msg.type \in {"new_message", "typing"})
        => \A c \in Targets(turn.msg) \ {turn.ws} :
              c \notin turn.bad => c \in Recipients

\* C10: a frame that is not JSON changes no entry, no socket and hands nobody a
\* frame, and the handler returns to the very state the frame arrived in.
C10_MalformedDropped ==
    [][/\ (turn'.op = "message" /\ turn'.msg = Malformed)
            => /\ turn = Idle
               /\ turn'.sent = <<>>
               /\ UNCHANGED <<readyState, clients, hist>>
       /\ (turn.op = "message" /\ turn.msg = Malformed)
            => /\ turn' = Idle
               /\ UNCHANGED <<readyState, clients, hist>>]_vars

\* A registered connection that has joined a channel sends a frame that is not
\* JSON.
C10_Witness ==
    /\ turn.op = "message"
    /\ turn.msg = Malformed
    /\ turn.ws \in Registered
    /\ MapGet(clients, turn.ws).channels # {}

\* C11: a new_message with a recipientId, no channelId and no data object is
\* dropped as a whole: nobody is handed a frame.
C11_MissingDataDropped ==
    (/\ IsEvent("new_message")
     /\ turn.msg.channelId = Undef
     /\ turn.msg.recipientId # Undef
     /\ ~turn.msg.data.present)
        => turn.sent = <<>>

\* What the code does with that event: the entries are visited in insertion
\* order, every entry of user recipientId met before the first entry of another
\* user is handed {type: "new_message"}, and at that other entry the read of
\* message.data.authorId throws, which ends the loop.
MissingDataPrefix ==
    (/\ IsEvent("new_message")
     /\ turn.msg.channelId = Undef
     /\ Truthy(turn.msg.recipientId)
     /\ ~turn.msg.data.present)
        => /\ turn.threw <=> \E i \in DOMAIN clients :
                                clients[i].userId # turn.msg.recipientId
           /\ Recipients =
                {clients[i].ws : i \in
                    {j \in DOMAIN clients :
                        /\ \A k \in 1..j : clients[k].userId = turn.msg.recipientId
                        /\ readyState[clients[j].ws] = "OPEN"
                        /\ clients[j].ws # turn.ws}}

\* C12: once the close event of c has been handled, c stays closed, has no
\* entry (so no membership) and is handed no frame, whatever is handled later.
C12_ClosedIsGone ==
    /\ [](\A c \in Handles :
             readyState[c] = "CLOSED" => c \notin Registered /\ c \notin Recipients)
    /\ [][\A c \in Handles :
             readyState[c] = "CLOSED" => readyState'[c] = "CLOSED"]_vars

\* After a connection was closed, a registered member of a channel sends a
\* typing event for that channel.
C12_Witness ==
    /\ IsEvent("typing")
    /\ turn.ws \in Joined(turn.msg.channelId)
    /\ \E c \in Handles \ {turn.ws} : readyState[c] = "CLOSED"

\* C13: removing connection c, from any registry a handler can start in and from
\* the registry a close handler has just left, leaves c
\* without an entry; removing it again, or removing a connection that has no
\* entry, changes nothing; and every other connection keeps its entry, with
\* the same userId and channels.
C13_RemoveIdempotentLocal ==
    turn.op \in {"idle", "close"} =>
        \A c \in Handles :
            LET once == CloseRegistry(clients, c) IN
            /\ ~MapHas(once, c)
            /\ CloseRegistry(once, c) = once
            /\ ~MapHas(clients, c) => once = clients
            /\ \A d \in Registered \ {c} :
                  MapHas(once, d) /\ MapGet(once, d) = MapGet(clients, d)
            /\ Len(once) = Len(clients) - (IF MapHas(clients, c) THEN 1 ELSE 0)

\* The close event of a connection has been handled while another connection of
\* user 1 is registered and has joined a channel.
C13_Witness ==
    /\ turn.op = "close"
    /\ \E d \in Registered :
          MapGet(clients, d).userId = 1 /\ MapGet(clients, d).channels # {}

\* C14: for a registered connection c, leave_channel(ch) leaves ch out of c's
\* channels, raises nothing, and changes nothing when ch was not joined;
\* join_channel(ch) puts ch in and changes nothing when ch was joined already;
\* and, from every registry a handler can start in, join_channel(ch) followed at
\* once by leave_channel(ch) leaves ch out and the other channels as they were.
C14_JoinLeave ==
    /\ [][(turn'.op = "message" /\ MapHas(clients, turn'.ws)) =>
            LET c == turn'.ws
                ch == turn'.msg.channelId
                before == MapGet(clients, c).channels
            IN  /\ turn'.msg.type = "leave_channel" =>
                      /\ MapHas(clients', c)
                      /\ ch \notin MapGet(clients', c).channels
                      /\ ~turn'.threw
                      /\ ch \notin before => clients' = clients
                /\ turn'.msg.type = "join_channel" =>
                      /\ MapHas(clients', c)
                      /\ ch \in MapGet(clients', c).channels
                      /\ ~turn'.threw
                      /\ ch \in before => clients' = clients]_vars
    /\ [](turn = Idle =>
             \A c \in Registered, ch \in ChannelIds :
                MapGet(LeaveRegistry(JoinRegistry(clients, c, JoinEvent(ch)),
                                     c, LeaveEvent(ch)), c).channels
                    = MapGet(clients, c).channels \ {ch})

\* A registered connection that has joined another channel has sent
\* leave_channel.
C14_Witness ==
    /\ IsEvent("leave_channel")
    /\ turn.ws \in Registered
    /\ MapGet(clients, turn.ws).channels # {}

KnownTypes == {"auth", "join_channel", "leave_channel", "new_message", "typing"}

\* C16: an event whose type the switch has no case for changes no entry and no
\* socket, hands nobody a frame and raises nothing.
C16_UnknownTypeDropped ==
    [][(/\ turn'.op = "message"
        /\ turn'.msg # Malformed
        /\ turn'.msg.type \notin KnownTypes)
          => /\ UNCHANGED <<readyState, clients>>
             /\ turn'.sent = <<>>
             /\ ~turn'.threw]_vars

\* An open, registered connection that shares a channel with another open
\* connection has sent an event of unknown type.
C16_Witness ==
    /\ turn.op = "message"
    /\ turn.msg = UnknownEvent
    /\ \E x \in ChannelIds :
          turn.ws \in Joined(x) /\ Joined(x) \ {turn.ws} # {}

\* C17: handling an auth, join_channel or leave_channel event hands nobody a
\* frame.
C17_NoFanOutOnRegistryEvents ==
    (turn.op = "message"
     /\ turn.msg.type \in {"auth", "join_channel", "leave_channel"})
        => turn.sent = <<>>

\* A registered connection has sent join_channel for a channel another open
\* connection has joined.
C17_Witness ==
    /\ IsEvent("join_channel")
    /\ turn.ws \in Registered
    /\ Joined(turn.msg.channelId) \ {turn.ws} # {}

\* The registered connections event m selects by its ids alone, whatever their
\* readyState.
Selected(m) ==
    {c \in Registered :
        LET e == MapGet(clients, c) IN
        CASE m.type = "typing" -> m.channelId \in e.channels
          [] m.type = "new_message" ->
                IF Truthy(m.channelId) THEN m.channelId \in e.channels
                ELSE /\ Truthy(m.recipientId)
                     /\ e.userId \in {m.recipientId, m.data.authorId}
          [] OTHER -> FALSE}

\* C18: every frame of a fan-out goes to a connection whose readyState is OPEN
\* and carries the event being handled (no frame of an earlier event is
\* delivered late), and nothing is kept for later once the handler has returned.
C18_NotOpenSkipped ==
    /\ (turn.op = "message" /\ turn.msg.type \in {"new_message", "typing"}) =>
          \A i \in DOMAIN turn.sent :
              /\ readyState[turn.sent[i].to] = "OPEN"
              /\ turn.sent[i].payload = Payload(turn.msg.type, turn.msg)
    /\ turn.op \notin {"message"} => turn.sent = <<>>

\* A channel event is fanned out while a connection it selects is registered
\* with a socket that is closing.
C18_Witness ==
    /\ turn.op = "message"
    /\ turn.msg.type \in {"new_message", "typing"}
    /\ \E c \in Selected(turn.msg) \ {turn.ws} : readyState[c] = "CLOSING"

\* The step handles an auth event of a connection while another connection is
\* registered: every other entry is kept as it was and the sender has an entry
\* of its own with the userId of the event.
AuthKeepsOthers ==
    (turn'.op = "message" /\ turn'.msg.type = "auth") =>
        /\ MapHas(clients', turn'.ws)
        /\ MapGet(clients', turn'.ws).userId = turn'.msg.userId
        /\ \A c \in Registered \ {turn'.ws} :
              MapHas(clients', c) /\ MapGet(clients', c) = MapGet(clients, c)

\* C19: an auth event of c2 with a userId another registered connection c1
\* holds keeps c1's entry as it was and gives c2 an entry of its own, and a later
\* new_message addressed to that userId (recipientId, no channelId) is handed to
\* every open connection of that user other than the sender.
C19_ManyConnectionsPerUser ==
    /\ [][AuthKeepsOthers]_vars
    /\ [](( /\ IsEvent("new_message")
            /\ turn.msg.channelId = Undef
            /\ turn.msg.recipientId # Undef)
             => ConnectionsOf(turn.msg.recipientId) \ {turn.ws} \subseteq Recipients)

\* The same for every userId the test `else if (message.recipientId)` takes for
\* present (every id but 0).
ManyConnectionsPerUserNonZero ==
    /\ [][AuthKeepsOthers]_vars
    /\ [](( /\ IsEvent("new_message")
            /\ turn.msg.channelId = Undef
            /\ Truthy(turn.msg.recipientId))
             => ConnectionsOf(turn.msg.recipientId) \ {turn.ws} \subseteq Recipients)

\* Two open connections of one non-zero user are both handed a new_message a
\* third connection addressed to that user.
ManyConnectionsPerUserReached ==
    /\ IsEvent("new_message")
    /\ Truthy(turn.msg.recipientId)
    /\ Cardinality(ConnectionsOf(turn.msg.recipientId) \cap Recipients) >= 2

\* C20: while a connection keeps its entry, its channel set changes only in a
\* step that handles a join_channel or leave_channel event of that connection;
\* in particular an auth event leaves it as it was.
C20_AuthKeepsChannels ==
    [][\A c \in Handles :
          (/\ MapHas(clients, c)
           /\ MapHas(clients', c)
           /\ MapGet(clients', c).channels # MapGet(clients, c).channels)
              => /\ turn'.op = "message"
                 /\ turn'.ws = c
                 /\ turn'.msg.type \in {"join_channel", "leave_channel"}]_vars

\* What the code does: the channel set of a registered connection changes only
\* in a step that handles an event of that connection, which is a join_channel,
\* a leave_channel, or an auth that empties it.
ChannelsChangeOnlyByOwner ==
    [][\A c \in Handles :
          (/\ MapHas(clients, c)
           /\ MapHas(clients', c)
           /\ MapGet(clients', c).channels # MapGet(clients, c).channels)
              => /\ turn'.op = "message"
                 /\ turn'.ws = c
                 /\ \/ turn'.msg.type \in {"join_channel", "leave_channel"}
                    \/ /\ turn'.msg.type = "auth"
                       /\ MapGet(clients', c).channels = {}]_vars

\* The event lacks the id its type requires.
LacksId(m) ==
    \/ m.type = "auth" /\ m.userId = Undef
    \/ m.type \in {"join_channel", "leave_channel"} /\ m.channelId = Undef

\* C21: an auth event without a userId, and a join_channel or leave_channel
\* event without a channelId, leave the registry exactly as it was.
C21_MissingIdDropped ==
    [][(turn'.op = "message" /\ LacksId(turn'.msg)) => clients' = clients]_vars

\* What the code does with them: auth creates or replaces the entry of the
\* sender with userId undefined and no channels; join_channel and leave_channel
\* of a registered sender add undefined to its channel set and remove it.
MissingIdStored ==
    [][(turn'.op = "message" /\ LacksId(turn'.msg)) =>
          LET c == turn'.ws IN
          /\ turn'.msg.type = "auth" =>
                /\ MapHas(clients', c)
                /\ MapGet(clients', c) = [ws |-> c, userId |-> Undef, channels |-> {}]
          /\ (turn'.msg.type = "join_channel" /\ MapHas(clients, c)) =>
                MapGet(clients', c).channels = MapGet(clients, c).channels \cup {Undef}
          /\ (turn'.msg.type = "leave_channel" /\ MapHas(clients, c)) =>
                MapGet(clients', c).channels = MapGet(clients, c).channels \ {Undef}]_vars

\* C22 as claimed: every entry belongs to a connection whose readyState is OPEN.
C22_EntriesOpen == \A c \in Registered : readyState[c] = "OPEN"

\* C22 as amended: every entry belongs to a connection whose close event has
\* not been handled (its readyState is OPEN or CLOSING), and a socket becomes
\* CLOSED only in the step that handles its close event, which leaves it with no
\* entry.
C22_EntriesNotClosed ==
    /\ [](\A c \in Registered : readyState[c] \in {"OPEN", "CLOSING"})
    /\ [][\A c \in Handles :
             (readyState[c] # "CLOSED" /\ readyState'[c] = "CLOSED")
                 => /\ turn'.op = "close" /\ turn'.ws = c
                    /\ ~MapHas(clients', c)]_vars

\* A connection whose socket is closing has sent auth and holds an entry, while
\* the other connection is registered and open.
C22_Witness ==
    /\ IsEvent("auth")
    /\ readyState[turn.ws] = "CLOSING"
    /\ turn.ws \in Registered
    /\ \E c \in Registered \ {turn.ws} : readyState[c] = "OPEN"

\* C23: a step that runs a handler for connection c (its 'connection', 'message'
\* or 'close' handler, whether or not the catch block ran) leaves every other
\* connection with the same readyState and the same entry, or with none if it
\* had none.
C23_ScopedToOneConnection ==
    [][turn'.op \in {"connection", "message", "close"} =>
          \A d \in Handles \ {turn'.ws} :
              /\ readyState'[d] = readyState[d]
              /\ MapHas(clients', d) <=> MapHas(clients, d)
              /\ MapHas(clients, d) => MapGet(clients', d) = MapGet(clients, d)]_vars

\* The handler of a new_message ended in the catch block while another
\* connection of the sender's user is registered and has joined a channel.
C23_Witness ==
    /\ IsEvent("new_message")
    /\ turn.threw
    /\ turn.ws \in Registered
    /\ \E d \in Registered \ {turn.ws} :
          /\ MapGet(clients, d).userId = MapGet(clients, turn.ws).userId
          /\ MapGet(clients, d).channels # {}

\* C26: a new_message that carries both a channelId and a recipientId is handed
\* to the open connections that joined the channel, the sender aside, and to
\* nobody else.
C26_BothIdsRoutedByChannel ==
    (/\ IsEvent("new_message")
     /\ turn.msg.channelId # Undef
     /\ turn.msg.recipientId # Undef)
        => Recipients = Joined(turn.msg.channelId) \ {turn.ws}

\* The same for every channelId the test `if (message.channelId)` takes for
\* present (every id but 0).
BothIdsRoutedByChannelNonZero ==
    (/\ IsEvent("new_message")
     /\ Truthy(turn.msg.channelId)
     /\ turn.msg.recipientId # Undef)
        => Recipients = Joined(turn.msg.channelId) \ {turn.ws}

\* A new_message with a non-zero channelId and a recipientId is sent while a
\* connection of the recipient that has not joined the channel is open: it is
\* handed nothing.
BothIdsRoutedByChannelReached ==
    /\ IsEvent("new_message")
    /\ Truthy(turn.msg.channelId)
    /\ \E c \in ConnectionsOf(turn.msg.recipientId) \ {turn.ws} :
          c \notin Joined(turn.msg.channelId) /\ c \notin Recipients

\* C27: from every registry a handler can start in, for every connection ws and
\* every channel id X (0 included), a new_message with channelId X and a typing
\* event with channelId X sent by ws are handed to the same connections.
C27_SameChannelRouting ==
    turn = Idle =>
        \A ws \in Handles, X \in ChannelIds :
            SentTo(NewMessageFanOut(ws, NewMessageEvent(X, Undef, Data(1)), {}))
                = SentTo(TypingFanOut(ws, TypingEvent(X, 1, TRUE), {}))

\* The same for every channel id but 0.
SameChannelRoutingNonZero ==
    turn = Idle =>
        \A ws \in Handles, X \in ChannelIds \ {0} :
            SentTo(NewMessageFanOut(ws, NewMessageEvent(X, Undef, Data(1)), {}))
                = SentTo(TypingFanOut(ws, TypingEvent(X, 1, TRUE), {}))

\* C28: the fan-out of one event hands no connection two frames.
C28_AtMostOncePerTarget ==
    turn.op = "message" =>
        \A i, j \in DOMAIN turn.sent :
            turn.sent[i].to = turn.sent[j].to => i = j

\* A direct message whose recipientId equals its data.authorId is handed to a
\* connection of that user, sent by another connection of the same user.
C28_Witness ==
    /\ IsEvent("new_message")
    /\ ~Truthy(turn.msg.channelId)
    /\ turn.msg.recipientId = turn.msg.data.authorId
    /\ turn.ws \in ConnectionsOf(turn.msg.recipientId)
    /\ \E c \in Recipients : c \in ConnectionsOf(turn.msg.recipientId)

\* C29: a step that handles a new_message or typing event leaves the registry
\* as it was: the same entries, in the same order, with the same userId and
\* channels, whether frames were handed out, none were, or a write threw.
C29_FanOutKeepsRegistry ==
    [][(turn'.op = "message" /\ turn'.msg.type \in {"new_message", "typing"})
          => clients' = clients]_vars

\* A typing event was handed to one member of the channel and the write to the
\* next member threw.
C29_Witness ==
    /\ IsEvent("typing")
    /\ turn.threw
    /\ turn.sent # <<>>
    /\ turn.bad \subseteq Joined(turn.msg.channelId)

\* The registry as it would be had ws no entry.
WithoutSender(ws) == SelectSeq(clients, LAMBDA e : e.ws # ws)

\* Entry e is selected by the ids of event m.
Matches(e, m) ==
    CASE m.type = "typing" -> m.channelId \in e.channels
      [] m.type = "new_message" ->
            IF Truthy(m.channelId) THEN m.channelId \in e.channels
            ELSE /\ Truthy(m.recipientId)
                 /\ \/ e.userId = m.recipientId
                    \/ m.data.present /\ e.userId = m.data.authorId
      [] OTHER -> FALSE

\* The visitor of event m throws at entry e.
ThrowsAt(e, m) ==
    /\ m.type = "new_message"
    /\ ~Truthy(m.channelId)
    /\ Truthy(m.recipientId)
    /\ ~m.data.present
    /\ e.userId # m.recipientId

\* The connections event m is handed to when its sender ws has no entry: a
\* function of m and of the entries and sockets of the other connections.
RecipientsWithoutSender(ws, m) ==
    LET o == WithoutSender(ws) IN
    {o[j].ws : j \in {i \in DOMAIN o :
                        /\ \A k \in 1..i : ~ThrowsAt(o[k], m)
                        /\ Matches(o[i], m)
                        /\ readyState[o[i].ws] = "OPEN"}}

\* C30: a new_message or typing event is handed to the connections it would be
\* handed to had its sender no entry, whatever entry the sender has.
C30_SenderStateIrrelevant ==
    (turn.op = "message" /\ turn.msg.type \in {"new_message", "typing"})
        => Recipients = RecipientsWithoutSender(turn.ws, turn.msg)

\* The same for the events that carry a data object.
SenderStateIrrelevantWithData ==
    (/\ turn.op = "message"
     /\ turn.msg.type \in {"new_message", "typing"}
     /\ turn.msg.type = "new_message" => turn.msg.data.present)
        => Recipients = RecipientsWithoutSender(turn.ws, turn.msg)

\* A registered sender that has not joined the channel of its typing event, and
\* authenticated as another user than the one the event names, has it handed
\* to a member.
SenderStateIrrelevantReached ==
    /\ IsEvent("typing")
    /\ turn.ws \in Registered
    /\ turn.msg.channelId \notin MapGet(clients, turn.ws).channels
    /\ MapGet(clients, turn.ws).userId # turn.msg.userId
    /\ turn.sent # <<>>

\* The entry of s alone, as a registry of its own.
EntryOf(s) == SelectSeq(clients, LAMBDA e : e.ws = s)

\* The registry map after the frames box[i], box[i+1], ... of ws, in that order.
RECURSIVE Replay(_, _, _, _)
Replay(map, ws, box, i) ==
    IF i > Len(box)
    THEN map
    ELSE Replay(RegistryAfter(map, ws, box[i].msg), ws, box, i + 1)

\* C24: the frames of one connection are handled in the order its client wrote
\* them, whatever the other connections do in between. For every sender s whose
\* socket is not closed, the entry of s followed by the auth, join_channel and
\* leave_channel frames still unread, applied in the order written, is the entry
\* that all its frames give when applied in the order written; and for every
\* receiver r, each frame of s that is handed to r was written after every frame
\* of s handed to r before.
C24_FifoPerConnection ==
    /\ [](\A s \in DOMAIN wire.inbox :
            readyState[s] \in {"OPEN", "CLOSING"} =>
                Replay(EntryOf(s), s, wire.inbox[s], 1) = wire.expect[s])
    /\ [][\A r \in DOMAIN wire.last : \A s \in DOMAIN wire.last[r] :
            wire'.last[r][s] # wire.last[r][s] =>
                wire'.last[r][s] > wire.last[r][s]]_vars

\* A sender has had a later frame forwarded to a receiver after an earlier one,
\* has applied a registry frame, and the receiver has had frames of its own
\* handled in between.
C24_Witness ==
    \E r \in DOMAIN wire.last : \E s \in DOMAIN wire.last[r] :
        /\ r # s
        /\ wire.last[r][s] >= 2
        /\ wire.count[r] >= 2
        /\ wire.inbox[r] = <<>>
        /\ EntryOf(s) # <<>>
        /\ turn.op = "message" /\ turn.ws = s /\ Len(turn.sent) = 1

\* The background tasks of request r that have not settled.
Unsettled(r) ==
    {t \in {"tone", "embed"} :
        \/ t = "tone" /\ http[r].tone = "pending"
        \/ t = "embed" /\ http[r].embed \in {"embedding", "inserting"}}

\* C25: creating a message does not depend on the AI and embedding calls. In the
\* step in which storage.createMessage succeeds the request is answered 201 with
\* the stored row, the tone analysis and the embedding still unsettled when the
\* content is not empty; a response, once sent, and the stored row never change,
\* whether the background tasks succeed, fail or reject; and a stored row always
\* goes with a 201 that carries it.
C25_CreationDecoupled ==
    /\ [](\A r \in DOMAIN http :
            http[r].stored # <<>> =>
                http[r].status = 201 /\ http[r].body = http[r].stored)
    /\ [][\A r \in DOMAIN http :
            /\ http[r].stored = <<>> /\ http'[r].stored # <<>> =>
                   /\ http'[r].status = 201
                   /\ http'[r].body = http'[r].stored
                   /\ http'[r].content # "" =>
                          http'[r].tone = "pending" /\ http'[r].embed = "embedding"
            /\ http[r].status # 0 =>
                   /\ http'[r].status = http[r].status
                   /\ http'[r].body = http[r].body
                   /\ http'[r].stored = http[r].stored]_vars

\* One request was answered 201 with its row and both its background tasks
\* failed afterwards, while another was answered 201 with both still unsettled.
C25_Witness ==
    \E r, q \in DOMAIN http :
        /\ http[r].status = 201 /\ http[r].body = <<Message(r)>>
        /\ http[r].tone = "rejected" /\ http[r].embed = "failed"
        /\ http[q].status = 201 /\ http[q].stored = <<Message(q)>>
        /\ Unsettled(q) = {"tone", "embed"}

====
